---- MODULE Spec2Model ----
(***************************************************************************)
(* One run of tracker_app.py, the Streamlit script that fetches Google     *)
(* Trends interest for the selected keywords and the crude-oil close       *)
(* price, aligns them on business days, and reports the correlation        *)
(* matrix, the lagged correlations and a CSV export.                       *)
(*                                                                         *)
(* A DataFrame is a record [index, cols, data]: index is the sequence of   *)
(* timestamps (day numbers), cols the column names in order, data maps a   *)
(* column name to its cells, one per index entry.  A cell is a             *)
(* non-negative integer or NaN.  A correlation coefficient r is held       *)
(* exactly, as <<sign(r), p, q>> with p/q = r^2 in lowest terms;           *)
(* <<0, 0, 0>> is pandas' NaN.  The timeframe selectbox only picks the     *)
(* period asked of the two services and is left out: the fetched tables    *)
(* are any tables within the bounds.                                       *)
(***************************************************************************)
EXTENDS Integers, Sequences, FiniteSets, TLC

\* ---------------------------------------------------------------- bounds

\* Calendar days 0..NDays-1 that timestamps are drawn from.
NDays == 4

\* The longest column the forward-fill is applied to on its own.
MaxFill == 4

\* How many raw points a non-empty fetched interest table may hold.
RawPoints == {1, 2, 3}

\* Raw interest values and close prices are drawn from Vals.
Vals == {1, 2}

\* The keyword options of the sidebar that the model lets the user pick.
Options == {"crude oil", "LNG"}

\* ------------------------------------------------------------- constants

\* for lag in range(1, 8): the last lag.
MaxLag == 7

\* A missing cell (numpy.nan); every real cell is >= 0.
NaN == -1

\* Means of a day-bin are kept as integers: a bin holds at most the three
\* days Friday..Sunday, so MeanScale * sum \div count is exact.  Interest
\* cells of trends and merged_df are therefore in units of 1/MeanScale.
MeanScale == 6

\* ---------------------------------------------------------------- helpers

Days == 0 .. (NDays - 1)

\* Day 0 is a Wednesday; 0 = Monday .. 6 = Sunday.
Weekday(d) == (d + 2) % 7

IsBDay(d) == Weekday(d) < 5

BDays == {d \in Days : IsBDay(d)}

\* BusinessDay.rollback: the latest business day at or before d.
Rollback(d) == CHOOSE b \in 0 .. d : IsBDay(b) /\ \A c \in (b + 1) .. d : ~IsBDay(c)

Max(S) == CHOOSE x \in S : \A y \in S : y <= x

Min(S) == CHOOSE x \in S : \A y \in S : x <= y

RECURSIVE SortedSeq(_)
\* A DatetimeIndex of the days of S, ascending.
SortedSeq(S) == IF S = {} THEN <<>> ELSE <<Min(S)>> \o SortedSeq(S \ {Min(S)})

Range(s) == {s[i] : i \in DOMAIN s}

RECURSIVE SumSeq(_)
SumSeq(s) == IF s = <<>> THEN 0 ELSE Head(s) + SumSeq(Tail(s))

RECURSIVE GCD(_, _)
GCD(a, b) == IF b = 0 THEN a ELSE GCD(b, a % b)

\* The (empty) frame a variable holds before the script binds it.
NoFrame == [index |-> <<>>, cols |-> <<>>, data |-> <<>>]

Frame(index, cols, data) == [index |-> index, cols |-> cols, data |-> data]

\* A guard that never reports an empty frame (as a test against None would).
NeverEmpty(df) == FALSE

\* DataFrame.empty
Empty(df) == Len(df.index) = 0 \/ Len(df.cols) = 0

NRows(df) == Len(df.index)

\* ------------------------------------------------------- pandas operators

Pos(s, d) == CHOOSE i \in DOMAIN s : s[i] = d

RECURSIVE SumCells(_, _)
\* The sum of cells[i] over the positions i of S.
SumCells(cells, S) ==
    IF S = {} THEN 0
    ELSE LET i == CHOOSE j \in S : TRUE IN cells[i] + SumCells(cells, S \ {i})

\* Resampler.mean of one 'B' bin: the mean of the non-missing cells whose
\* timestamp rolls back to business day b (a Saturday or Sunday point falls
\* in the Friday bin), NaN for a bin with none.
BinMean(index, cells, b) ==
    LET S == {i \in DOMAIN index : Rollback(index[i]) = b /\ cells[i] # NaN}
    IN  IF S = {} THEN NaN ELSE (MeanScale * SumCells(cells, S)) \div Cardinality(S)

\* The bin labels of resample('B'): every business day from the rollback of
\* the first timestamp to the rollback of the last.
BinLabels(index) ==
    SortedSeq({b \in Rollback(index[1]) .. Rollback(index[Len(index)]) : IsBDay(b)})

\* df.resample('B').mean()
Resample(df) ==
    IF Len(df.index) = 0 THEN df
    ELSE LET labels == BinLabels(df.index)
         IN  Frame(labels, df.cols,
                   [c \in Range(df.cols) |->
                       [i \in DOMAIN labels |-> BinMean(df.index, df.data[c], labels[i])]])

RECURSIVE FfillFrom(_, _)
\* The pad pass: last is the latest known value seen so far.
FfillFrom(s, last) ==
    IF s = <<>> THEN <<>>
    ELSE LET v == IF Head(s) = NaN THEN last ELSE Head(s)
         IN  <<v>> \o FfillFrom(Tail(s), v)

\* The fill as ffill().bfill() would do it: a leading gap takes the first
\* known value after it.
FfillBfill(s) ==
    LET known == {i \in DOMAIN s : s[i] # NaN}
    IN  FfillFrom(s, IF known = {} THEN NaN ELSE s[Min(known)])

\* Series.fillna(method='ffill')
Ffill(s) == FfillFrom(s, NaN)

\* The resampled frame left as it is, its gaps unfilled.
NoFill(df) == df

\* DataFrame.fillna(method='ffill'): every column padded on its own.
FfillFrame(df) == [df EXCEPT !.data = [c \in DOMAIN df.data |-> Ffill(df.data[c])]]

\* pd.merge(left, right, left_index=True, right_index=True): the inner join
\* on the index, left's columns then right's, in left's row order.
Merge(left, right) ==
    LET idx == SelectSeq(left.index, LAMBDA d : d \in Range(right.index))
    IN  Frame(idx, left.cols \o right.cols,
              [c \in Range(left.cols) \cup Range(right.cols) |->
                  [i \in DOMAIN idx |->
                      IF c \in Range(left.cols)
                      THEN left.data[c][Pos(left.index, idx[i])]
                      ELSE right.data[c][Pos(right.index, idx[i])]]])

\* df.rename(columns={old: new}, inplace=True)
Rename(df, old, new) ==
    LET nm(c) == IF c = old THEN new ELSE c
    IN  Frame(df.index,
              [i \in DOMAIN df.cols |-> nm(df.cols[i])],
              [c \in {nm(x) : x \in Range(df.cols)} |->
                  df.data[CHOOSE x \in Range(df.cols) : nm(x) = c]])

\* Series.shift(-k): the cell of row i+k moves to row i.
ShiftBack(s, k) == [i \in DOMAIN s |-> IF i + k > Len(s) THEN NaN ELSE s[i + k]]

\* Series.shift(k), k > 0: the cell of row i-k moves to row i, the first k
\* rows become NaN; the index is not touched.
Shift(s, k) == [i \in DOMAIN s |-> IF i <= k THEN NaN ELSE s[i - k]]

\* df[c] = cells
SetColumn(df, c, cells) == [df EXCEPT !.data[c] = cells]

\* pandas' NaN as a correlation value.
CorrNaN == <<0, 0, 0>>

Sign(x) == IF x > 0 THEN 1 ELSE IF x < 0 THEN 0 - 1 ELSE 0

\* A coefficient that reports 0 where the divisor is zero.
PearsonZeroFilled(xs, ys) ==
    LET n   == Len(xs)
        sx  == SumSeq(xs)
        sy  == SumSeq(ys)
        sxy == n * SumSeq([i \in DOMAIN xs |-> xs[i] * ys[i]]) - sx * sy
        sxx == n * SumSeq([i \in DOMAIN xs |-> xs[i] * xs[i]]) - sx * sx
        syy == n * SumSeq([i \in DOMAIN ys |-> ys[i] * ys[i]]) - sy * sy
        p   == sxy * sxy
        q   == sxx * syy
        g   == GCD(q, p)
    IN  IF n = 0 \/ q = 0 THEN <<0, 0, 1>> ELSE <<Sign(sxy), p \div g, q \div g>>

\* nancorr on the complete pairs xs[i], ys[i]: NaN with no observation or
\* with a zero divisor (either side constant), else cov / sqrt(varx * vary).
Pearson(xs, ys) ==
    LET n   == Len(xs)
        sx  == SumSeq(xs)
        sy  == SumSeq(ys)
        sxy == n * SumSeq([i \in DOMAIN xs |-> xs[i] * ys[i]]) - sx * sy
        sxx == n * SumSeq([i \in DOMAIN xs |-> xs[i] * xs[i]]) - sx * sx
        syy == n * SumSeq([i \in DOMAIN ys |-> ys[i] * ys[i]]) - sy * sy
        p   == sxy * sxy
        q   == sxx * syy
        g   == GCD(q, p)
    IN  IF n = 0 \/ q = 0 THEN CorrNaN ELSE <<Sign(sxy), p \div g, q \div g>>

\* The rows nancorr uses for the pair (a, b): those where neither is NaN.
CompleteRows(df, a, b) ==
    SortedSeq({i \in DOMAIN df.index : df.data[a][i] # NaN /\ df.data[b][i] # NaN})

\* One entry of DataFrame.corr().
Corr(df, a, b) ==
    LET rows == CompleteRows(df, a, b)
    IN  Pearson([k \in DOMAIN rows |-> df.data[a][rows[k]]],
                [k \in DOMAIN rows |-> df.data[b][rows[k]]])

\* DataFrame.corr(): the matrix as corr[a][b].
CorrMatrix(df) ==
    [a \in Range(df.cols) |-> [b \in Range(df.cols) |-> Corr(df, a, b)]]

\* f"Lag {i}"
LagLabel(i) == "Lag " \o ToString(i)

\* DataFrame.to_csv(): the header line, then one line per row; a NaN cell
\* is written as the empty field.
ToCsv(df) ==
    [header |-> <<"">> \o df.cols,
     rows   |-> [i \in DOMAIN df.index |->
                   <<ToString(df.index[i])>> \o
                   [j \in DOMAIN df.cols |->
                       LET v == df.data[df.cols[j]][i]
                       IN  IF v = NaN THEN "" ELSE ToString(v)]]]

NoCsv == [header |-> <<>>, rows |-> <<>>]

\* ------------------------------------------------------------------ state

VARIABLES
    pc,                     \* the statement the script is at
    bound,                  \* the names the script has bound so far
    messages,               \* st.warning / st.error / st.success shown
    keywords,               \* the sidebar's multiselect, in selection order
    interest_over_time_df,
    oil_data,
    resampled,              \* interest_over_time_df.resample('B').mean()
    trends,
    merged_df,
    correlation,
    lag_results,
    kw_i,                   \* position of kw in keywords (for kw in keywords)
    lag,
    lags,
    shifted,
    lag_corr,
    lag_df,
    csv_data                \* the data handed to st.download_button

vars == <<pc, bound, messages, keywords, interest_over_time_df, oil_data,
          resampled, trends, merged_df, correlation, lag_results, kw_i, lag,
          lags, shifted, lag_corr, lag_df, csv_data>>

\* ----------------------------------------------------------------- inputs

\* What the multiselect can return: the picked options, each once, in the
\* order they were picked.
Selections ==
    {s \in UNION {[1 .. n -> Options] : n \in 0 .. Cardinality(Options)} :
        \A i \in DOMAIN s, j \in DOMAIN s : s[i] = s[j] => i = j}

\* What pytrends.interest_over_time() can return for kws: the empty frame,
\* or one integer per keyword at each of its ascending timestamps.
InterestFrames(kws) ==
    {NoFrame} \cup
    UNION {{Frame(SortedSeq(T), kws, d) :
               d \in [Range(kws) -> [1 .. Cardinality(T) -> Vals]]} :
           T \in {U \in SUBSET Days : Cardinality(U) \in RawPoints}}

\* What yf.download(...) can return, reduced to its Close column: the empty
\* frame, or one price at each of some ascending trading days.
PriceFrames ==
    {NoFrame} \cup
    UNION {{Frame(SortedSeq(T), <<"Close">>, d) :
               d \in [{"Close"} -> [1 .. Cardinality(T) -> Vals]]} :
           T \in (SUBSET BDays) \ {{}}}

\* ---------------------------------------------------------------- actions

\* A guard whose st.stop() is missing: the run goes on to the next statement.
NoHalt(next) == next

\* st.stop(): the run ends here instead of going on to the statement at next.
Halt(next) == "stopped"

\* shifted = merged_df without the copy: both names hold the same frame.
CopyShares == TRUE

\* DataFrame.copy() is deep: shifted shares no cell with merged_df, so the
\* column assignment of the lag loop cannot reach merged_df.
CopyAliases == FALSE

\* lags.insert(0, v)
ListPrepend(l, v) == <<v>> \o l

\* lags.append(v)
ListAppend(l, v) == Append(l, v)

\* lag_results[k] = v
DictSet(d, k, v) == [x \in DOMAIN d \cup {k} |-> IF x = k THEN v ELSE d[x]]

Init ==
    /\ pc = "keywords"
    /\ bound = {}
    /\ messages = {}
    /\ keywords \in Selections
    /\ interest_over_time_df = NoFrame
    /\ oil_data = NoFrame
    /\ resampled = NoFrame
    /\ trends = NoFrame
    /\ merged_df = NoFrame
    /\ correlation = <<>>
    /\ lag_results = <<>>
    /\ kw_i = 0
    /\ lag = 0
    /\ lags = <<>>
    /\ shifted = NoFrame
    /\ lag_corr = CorrNaN
    /\ lag_df = NoFrame
    /\ csv_data = NoCsv

\* if len(keywords) == 0: st.warning(...); st.stop()
CheckKeywords ==
    /\ pc = "keywords"
    /\ IF Len(keywords) = 0
       THEN /\ messages' = messages \cup {"warning: select a keyword"}
            /\ pc' = Halt("trends")
       ELSE /\ messages' = messages
            /\ pc' = "trends"
    /\ UNCHANGED <<bound, keywords, interest_over_time_df, oil_data, resampled,
                   trends, merged_df, correlation, lag_results, kw_i, lag, lags,
                   shifted, lag_corr, lag_df, csv_data>>

\* build_payload; interest_over_time(); if .empty: st.error(...); st.stop()
FetchTrends ==
    /\ pc = "trends"
    /\ \E df \in InterestFrames(keywords) :
          /\ interest_over_time_df' = df
          /\ IF Empty(df)
             THEN /\ messages' = messages \cup {"error: no trend data"}
                  /\ pc' = Halt("oil")
             ELSE /\ messages' = messages
                  /\ pc' = "oil"
    /\ bound' = bound \cup {"payload", "interest_over_time_df"}
    /\ UNCHANGED <<keywords, oil_data, resampled, trends, merged_df, correlation,
                   lag_results, kw_i, lag, lags, shifted, lag_corr, lag_df,
                   csv_data>>

\* yf.download(...); if oil_data.empty: st.error(...); st.stop()
DownloadOil ==
    /\ pc = "oil"
    /\ \E df \in PriceFrames :
          /\ oil_data' = df
          /\ IF Empty(df)
             THEN /\ messages' = messages \cup {"error: no oil data"}
                  /\ pc' = Halt("merge")
             ELSE /\ messages' = messages
                  /\ pc' = "merge"
    /\ bound' = bound \cup {"oil_data"}
    /\ UNCHANGED <<keywords, interest_over_time_df, resampled, trends, merged_df,
                   correlation, lag_results, kw_i, lag, lags, shifted, lag_corr,
                   lag_df, csv_data>>

\* trends = ...resample('B').mean().fillna(method='ffill'); merged_df =
\* pd.merge(trends, oil_data['Close'], ...); rename Close to Oil Price
MergeClean ==
    /\ pc = "merge"
    /\ resampled' = Resample(interest_over_time_df)
    /\ trends' = FfillFrame(resampled')
    /\ merged_df' = Rename(Merge(trends', oil_data), "Close", "Oil Price")
    /\ bound' = bound \cup {"trends", "merged_df"}
    /\ pc' = "correlate"
    /\ UNCHANGED <<messages, keywords, interest_over_time_df, oil_data,
                   correlation, lag_results, kw_i, lag, lags, shifted, lag_corr,
                   lag_df, csv_data>>

\* correlation = merged_df.corr(); lag_results = {}
Correlate ==
    /\ pc = "correlate"
    /\ correlation' = CorrMatrix(merged_df)
    /\ lag_results' = <<>>
    /\ kw_i' = 1
    /\ bound' = bound \cup {"correlation", "lag_results"}
    /\ pc' = "for_kw"
    /\ UNCHANGED <<messages, keywords, interest_over_time_df, oil_data, resampled,
                   trends, merged_df, lag, lags, shifted, lag_corr, lag_df,
                   csv_data>>

\* for kw in keywords: lags = []
KwBegin ==
    /\ pc = "for_kw"
    /\ kw_i <= Len(keywords)
    /\ lags' = <<>>
    /\ lag' = 1
    /\ pc' = "for_lag"
    /\ UNCHANGED <<bound, messages, keywords, interest_over_time_df, oil_data,
                   resampled, trends, merged_df, correlation, lag_results, kw_i,
                   shifted, lag_corr, lag_df, csv_data>>

\* for lag in range(1, 8): shifted = merged_df.copy(); shifted[kw] =
\* shifted[kw].shift(lag); lag_corr = shifted.corr()[kw]['Oil Price'];
\* lags.append(lag_corr)
LagBody ==
    /\ pc = "for_lag"
    /\ lag <= MaxLag
    /\ LET kw == keywords[kw_i]
           sh == SetColumn(merged_df, kw, Shift(merged_df.data[kw], lag))
           c  == CorrMatrix(sh)[kw]["Oil Price"]
       IN  /\ shifted' = sh
           /\ merged_df' = IF CopyAliases THEN sh ELSE merged_df
           /\ lag_corr' = c
           /\ lags' = ListAppend(lags, c)
    /\ lag' = lag + 1
    /\ UNCHANGED <<pc, bound, messages, keywords, interest_over_time_df,
                   oil_data, resampled, trends, correlation, lag_results, kw_i,
                   lag_df, csv_data>>

\* lag_results[kw] = lags
KwEnd ==
    /\ pc = "for_lag"
    /\ lag > MaxLag
    /\ lag_results' = DictSet(lag_results, keywords[kw_i], lags)
    /\ kw_i' = kw_i + 1
    /\ pc' = "for_kw"
    /\ UNCHANGED <<bound, messages, keywords, interest_over_time_df, oil_data,
                   resampled, trends, merged_df, correlation, lag, lags, shifted,
                   lag_corr, lag_df, csv_data>>

\* lag_df = pd.DataFrame(lag_results, index=[f"Lag {i}" for i in range(1, 8)])
LagTable ==
    /\ pc = "for_kw"
    /\ kw_i > Len(keywords)
    /\ lag_df' = Frame([i \in 1 .. MaxLag |-> LagLabel(i)], keywords, lag_results)
    /\ bound' = bound \cup {"lag_df"}
    /\ pc' = "visualize"
    /\ UNCHANGED <<messages, keywords, interest_over_time_df, oil_data, resampled,
                   trends, merged_df, correlation, lag_results, kw_i, lag, lags,
                   shifted, lag_corr, csv_data>>

\* The plots: one figure per keyword, reading merged_df only.
Visualize ==
    /\ pc = "visualize"
    /\ pc' = "download"
    /\ UNCHANGED <<bound, messages, keywords, interest_over_time_df, oil_data,
                   resampled, trends, merged_df, correlation, lag_results, kw_i,
                   lag, lags, shifted, lag_corr, lag_df, csv_data>>

\* st.download_button(data=merged_df.to_csv().encode('utf-8')); st.success
Download ==
    /\ pc = "download"
    /\ csv_data' = ToCsv(merged_df)
    /\ bound' = bound \cup {"csv_data"}
    /\ messages' = messages \cup {"success: done"}
    /\ pc' = "done"
    /\ UNCHANGED <<keywords, interest_over_time_df, oil_data, resampled, trends,
                   merged_df, correlation, lag_results, kw_i, lag, lags, shifted,
                   lag_corr, lag_df>>

Next ==
    \/ CheckKeywords
    \/ FetchTrends
    \/ DownloadOil
    \/ MergeClean
    \/ Correlate
    \/ KwBegin
    \/ LagBody
    \/ KwEnd
    \/ LagTable
    \/ Visualize
    \/ Download

Spec == Init /\ [][Next]_vars

\* ------------------------------------------- the forward-fill on its own

\* Any column of up to MaxFill cells, missing cells anywhere (also leading).
FillInputs ==
    UNION {UNION {{Frame([i \in 1 .. n |-> i - 1], <<c>>, d) :
                      d \in [{c} -> [1 .. n -> Vals \cup {NaN}]]} :
                  c \in Options} :
           n \in 0 .. MaxFill}

InitFill ==
    /\ pc = "fill"
    /\ bound = {}
    /\ messages = {}
    /\ keywords = <<>>
    /\ interest_over_time_df = NoFrame
    /\ oil_data = NoFrame
    /\ resampled \in FillInputs
    /\ trends = NoFrame
    /\ merged_df = NoFrame
    /\ correlation = <<>>
    /\ lag_results = <<>>
    /\ kw_i = 0
    /\ lag = 0
    /\ lags = <<>>
    /\ shifted = NoFrame
    /\ lag_corr = CorrNaN
    /\ lag_df = NoFrame
    /\ csv_data = NoCsv

\* trends = <resampled>.fillna(method='ffill')
FillStep ==
    /\ pc = "fill"
    /\ trends' = FfillFrame(resampled)
    /\ bound' = bound \cup {"trends"}
    /\ pc' = "filled"
    /\ UNCHANGED <<messages, keywords, interest_over_time_df, oil_data, resampled,
                   merged_df, correlation, lag_results, kw_i, lag, lags, shifted,
                   lag_corr, lag_df, csv_data>>

NextFill == FillStep

SpecFill == InitFill /\ [][NextFill]_vars

\* ----------------------------------------------------------------- claims

InterestCols(df) == Range(df.cols) \ {"Oil Price"}

\* C1: every row of the merged table has a timestamp that the price series
\* and the filled interest calendar both hold, and no cell of it is missing.
C1_AlignedRowsComplete ==
    "merged_df" \in bound =>
        /\ "Oil Price" \in Range(merged_df.cols)
        /\ \A i \in DOMAIN merged_df.index :
              /\ merged_df.index[i] \in Range(oil_data.index)
              /\ merged_df.index[i] \in Range(trends.index)
              /\ \A c \in Range(merged_df.cols) : merged_df.data[c][i] # NaN

\* A merge that dropped a day one side lacks and kept a day whose interest
\* cell was a gap before the fill.
C1_Witness ==
    /\ "merged_df" \in bound
    /\ NRows(merged_df) >= 2
    /\ \E d \in Range(oil_data.index) \cup Range(trends.index) :
          d \notin Range(merged_df.index)
    /\ \E i \in DOMAIN merged_df.index, c \in InterestCols(merged_df) :
          resampled.data[c][Pos(resampled.index, merged_df.index[i])] = NaN

\* C2: the filled cell of bin i is the cell of the latest bin at or before i
\* that was known, and a bin with no known bin at or before it stays missing.
C2_FfillNoLookAhead ==
    "trends" \in bound =>
        /\ trends.index = resampled.index
        /\ trends.cols = resampled.cols
        /\ \A c \in Range(resampled.cols) : \A i \in DOMAIN resampled.index :
              LET known == {j \in 1 .. i : resampled.data[c][j] # NaN}
              IN  trends.data[c][i] =
                     IF known = {} THEN NaN ELSE resampled.data[c][Max(known)]

\* A column with a leading gap that stays missing although a later bin is
\* known, and a later gap that is filled.
C2_Witness ==
    /\ pc = "filled"
    /\ \E c \in Range(resampled.cols) :
          /\ Len(resampled.data[c]) >= 4
          /\ resampled.data[c][1] = NaN
          /\ trends.data[c][1] = NaN
          /\ resampled.data[c][2] # NaN
          /\ resampled.data[c][3] = NaN
          /\ trends.data[c][3] = resampled.data[c][2]
          /\ resampled.data[c][4] # resampled.data[c][2]
          /\ resampled.data[c][4] # NaN

ProducedByAnalysis ==
    {"trends", "merged_df", "correlation", "lag_results", "lag_df", "csv_data"}

\* C3: once a fetched table is empty the run has stopped with an error and
\* has produced no merged table, correlation matrix, lag table or export.
C3_EmptyInputHalts ==
    (\/ "interest_over_time_df" \in bound /\ Len(interest_over_time_df.index) = 0
     \/ "oil_data" \in bound /\ Len(oil_data.index) = 0)
    => /\ pc = "stopped"
       /\ messages \cap {"error: no trend data", "error: no oil data"} # {}
       /\ bound \cap ProducedByAnalysis = {}
       /\ "success: done" \notin messages

\* The price download came back empty after a non-empty interest table.
C3_Witness ==
    /\ "oil_data" \in bound
    /\ Len(oil_data.index) = 0
    /\ Len(interest_over_time_df.index) > 0
    /\ pc = "stopped"

\* C4: an empty join of two non-empty inputs ends the analysis with no
\* correlation matrix, lag table or export.
C4_NoOverlapHalts ==
    ("merged_df" \in bound /\ NRows(merged_df) = 0)
    => /\ bound \cap {"correlation", "lag_results", "lag_df", "csv_data"} = {}
       /\ "success: done" \notin messages

\* C5: a lag step that has run with lag k on a merged table of n rows used
\* exactly n - k comparison rows, and it ran only if at least 2 rows
\* remained (stated for n >= 1, the tables C4 lets through).
C5_LagRowsOrError ==
    (pc = "for_lag" /\ lag > 1 /\ NRows(merged_df) >= 1)
    => LET k == lag - 1
           n == NRows(merged_df)
       IN  /\ n - k >= 2
           /\ Len(CompleteRows(shifted, keywords[kw_i], "Oil Price")) = n - k

\* What C6 asks of one step taken inside the lag loop.
C6_LoopStep ==
    pc \in {"for_kw", "for_lag"} =>
        /\ merged_df' = merged_df
        /\ lag' = lag + 1 =>
              \A i \in DOMAIN shifted'.index :
                  shifted'.data[keywords[kw_i]][i] =
                      IF i <= lag THEN NaN
                      ELSE trends.data[keywords[kw_i]]
                               [Pos(trends.index, merged_df.index[i - lag])]

\* C6: no step of the lag loop changes merged_df, and the column a lag step
\* correlates is the column of the table as merged (read back through trends
\* and the merged index) moved by exactly that lag.
C6_LagLoopLeavesMerged == [][C6_LoopStep]_vars

\* The second keyword at its third lag, with a cell of the column still in
\* the window.
C6_Witness ==
    /\ pc = "for_lag"
    /\ kw_i = 2
    /\ lag = 3
    /\ NRows(merged_df) >= 3
    /\ \E i \in DOMAIN shifted.index : shifted.data[keywords[2]][i] # NaN

\* C7: after the step of lag k the keyword's column of shifted holds the cell
\* of row i - k at every row i > k and nothing in its first k rows, and the
\* index and every other column are those of merged_df.
C7_OnlyInterestShiftedForward ==
    (pc = "for_lag" /\ lag > 1)
    => LET k  == lag - 1
           kw == keywords[kw_i]
       IN  /\ shifted.index = merged_df.index
           /\ shifted.cols = merged_df.cols
           /\ \A i \in DOMAIN merged_df.index :
                 shifted.data[kw][i] =
                     IF i <= k THEN NaN ELSE merged_df.data[kw][i - k]
           /\ \A c \in Range(merged_df.cols) \ {kw} :
                 shifted.data[c] = merged_df.data[c]

\* A lag-1 step on three rows, two keywords, where the keyword's cells and
\* the prices vary.
C7_Witness ==
    /\ pc = "for_lag"
    /\ lag = 2
    /\ Len(keywords) = 2
    /\ NRows(merged_df) = 3
    /\ merged_df.data[keywords[kw_i]][1] # merged_df.data[keywords[kw_i]][2]
    /\ merged_df.data[keywords[kw_i]][2] # merged_df.data[keywords[kw_i]][3]
    /\ merged_df.data["Oil Price"][1] # merged_df.data["Oil Price"][3]
    /\ shifted.data[keywords[kw_i]][2] = merged_df.data[keywords[kw_i]][1]

IsConstant(cells) == \A i \in DOMAIN cells, j \in DOMAIN cells : cells[i] = cells[j]

\* C8: every entry of the correlation matrix that involves a constant column
\* is NaN (its diagonal too), never a number; the diagonal of any other
\* column is 1.
C8_ZeroVarianceUndefined ==
    "correlation" \in bound =>
        \A c \in Range(merged_df.cols) :
            IF IsConstant(merged_df.data[c])
            THEN \A d \in Range(merged_df.cols) :
                    correlation[c][d] = CorrNaN /\ correlation[d][c] = CorrNaN
            ELSE correlation[c][c] = <<1, 1, 1>>

\* Two constant keyword columns beside a varying price.
C8_Witness ==
    /\ "correlation" \in bound
    /\ Len(keywords) = 2
    /\ NRows(merged_df) >= 2
    /\ IsConstant(merged_df.data[keywords[1]])
    /\ IsConstant(merged_df.data[keywords[2]])
    /\ ~IsConstant(merged_df.data["Oil Price"])
    /\ correlation[keywords[1]][keywords[2]] = CorrNaN
    /\ correlation["Oil Price"]["Oil Price"] = <<1, 1, 1>>

\* The correlation of keyword kw at lag k, from the merged table: row j of
\* the keyword against row j + k of the price.
LagCorrOf(kw, k) ==
    LET m == IF NRows(merged_df) > k THEN NRows(merged_df) - k ELSE 0
    IN  Pearson([j \in 1 .. m |-> merged_df.data[kw][j]],
                [j \in 1 .. m |-> merged_df.data["Oil Price"][j + k]])

\* C9: lags holds, in order, the correlations of the lags done so far for
\* the current keyword; lag_results holds exactly the keywords whose loop is
\* done, each with 7 values, the i-th being the correlation at lag i; and the
\* finished lag table has one entry per selected keyword and no other, under
\* the row labels Lag 1 .. Lag 7.
C9_LagResultsShape ==
    "lag_results" \in bound =>
        /\ DOMAIN lag_results = {keywords[i] : i \in 1 .. (kw_i - 1)}
        /\ \A kw \in DOMAIN lag_results :
              /\ Len(lag_results[kw]) = 7
              /\ \A i \in 1 .. 7 : lag_results[kw][i] = LagCorrOf(kw, i)
        /\ pc = "for_lag" =>
              /\ Len(lags) = lag - 1
              /\ \A i \in 1 .. Len(lags) : lags[i] = LagCorrOf(keywords[kw_i], i)
        /\ "lag_df" \in bound =>
              /\ DOMAIN lag_results = Range(keywords)
              /\ lag_df.index =
                     <<"Lag 1", "Lag 2", "Lag 3", "Lag 4", "Lag 5", "Lag 6", "Lag 7">>
              /\ lag_df.cols = keywords
              /\ lag_df.data = lag_results

\* Two keywords, one with a number at lag 1 and NaN at lag 7.
C9_Witness ==
    /\ "lag_df" \in bound
    /\ Len(keywords) = 2
    /\ \E kw \in Range(keywords) :
          /\ lag_results[kw][1] # CorrNaN
          /\ lag_results[kw][7] = CorrNaN

C10_Guards ==
    /\ (Len(keywords) = 0 /\ pc # "keywords") =>
           /\ pc = "stopped"
           /\ "warning: select a keyword" \in messages
           /\ bound = {}
    /\ "payload" \in bound => Len(keywords) > 0
    /\ "oil_data" \in bound =>
           /\ "interest_over_time_df" \in bound
           /\ Len(interest_over_time_df.index) > 0
    /\ bound \cap ProducedByAnalysis # {} =>
           /\ {"interest_over_time_df", "oil_data"} \subseteq bound
           /\ Len(interest_over_time_df.index) > 0
           /\ Len(oil_data.index) > 0

\* C10: nothing is fetched without a keyword, the price is downloaded only
\* after a non-empty interest table, the analysis and the export happen only
\* after both tables were non-empty, and a stopped run takes no further step.
C10_GuardOrder ==
    /\ []C10_Guards
    /\ [][pc = "stopped" => pc' = "stopped" /\ bound' = bound]_vars

\* A run that passed every guard and reached the export.
C10_Witness ==
    /\ pc = "done"
    /\ "csv_data" \in bound
    /\ "success: done" \in messages

====
